---- MODULE Spec2Model ----
(***************************************************************************)
(* Model of nemoa's workspace file store, class WsFile of                  *)
(* lib/nemoa/common/niows.py: a zip archive kept in a memory buffer, with  *)
(* several physical versions per member path, rebuilt on deletion and      *)
(* compacted on save.                                                      *)
(*                                                                         *)
(* A path string is the record [parts, slash]: its components and whether  *)
(* it ends in '/'.  pathlib drops the trailing slash (Path('a/') equals    *)
(* Path('a')), ZipInfo.is_dir() looks at nothing else.  A payload is a     *)
(* sequence of characters; "CR" and "LF" are the two newline characters.   *)
(* A member of the archive is [filename, date_time, data].                 *)
(***************************************************************************)
EXTENDS Integers, Sequences, FiniteSets, TLC

\* ------------------------------------------------------------------ bounds
MaxClock == 3
MaxCalls == 3

\* --------------------------------------------------------- class constants
CONFIG_FILE == [parts |-> <<"workspace.ini">>, slash |-> FALSE]

CONFIG_STRUCT == <<"about", "license", "maintainer", "email", "startup">>

CONFIG_DEFAULT == {<<"maintainer", "user">>}

DIR_LAYOUT == <<"dataset", "network", "system", "model", "script">>

\* os.linesep of the platform the store runs on (POSIX)
linesep == <<"LF">>

\* ------------------------------------------------------------ path helpers
\* PurePath(path).as_posix(): the path without a trailing slash
AsPosix(path) == [parts |-> path.parts, slash |-> FALSE]

\* Path(a) == Path(b)
SamePath(a, b) == a.parts = b.parts

\* no member is taken for a directory
is_dir_Never(zinfo) == FALSE

\* ZipInfo.is_dir()
is_dir(zinfo) == zinfo.filename.slash

\* position of a path component in the ascending order of the strings
NameOrder == <<"dataset", "model", "network", "script", "sub", "system",
               "workspace.ini", "x", "y">>

NameRank(n) == CHOOSE i \in 1..Len(NameOrder) : NameOrder[i] = n

\* a < b for the strings of two paths ('/' sorts below every letter)
RECURSIVE PartsLess(_, _)
PartsLess(a, b) ==
    IF a = <<>> THEN b # <<>>
    ELSE IF b = <<>> THEN FALSE
    ELSE IF Head(a) # Head(b) THEN NameRank(Head(a)) < NameRank(Head(b))
    ELSE PartsLess(Tail(a), Tail(b))

PathLess(a, b) ==
    \/ PartsLess(a.parts, b.parts)
    \/ a.parts = b.parts /\ ~a.slash /\ b.slash

\* sorted(paths)
RECURSIVE SortPaths(_)
SortPaths(paths) ==
    IF paths = <<>> THEN <<>>
    ELSE LET p == paths[Len(paths)]
             s == SortPaths(SubSeq(paths, 1, Len(paths) - 1))
             k == Cardinality({i \in 1..Len(s) : ~PathLess(p, s[i])})
         IN SubSeq(s, 1, k) \o <<p>> \o SubSeq(s, k + 1, Len(s))

\* ------------------------------------------------------------ text streams
\* TextIOWrapper.write with newline=None: '\n' becomes os.linesep
RECURSIVE EncodeText(_)
EncodeText(text) ==
    IF text = <<>> THEN <<>>
    ELSE (IF Head(text) = "LF" THEN linesep ELSE <<Head(text)>>)
         \o EncodeText(Tail(text))

\* TextIOWrapper.read with newline=None: '\r\n' and '\r' become '\n'
RECURSIVE DecodeText(_)
DecodeText(blob) ==
    IF blob = <<>> THEN <<>>
    ELSE IF Head(blob) = "CR"
         THEN <<"LF">> \o DecodeText(IF Len(blob) > 1 /\ blob[2] = "LF"
                                     THEN Tail(Tail(blob)) ELSE Tail(blob))
         ELSE <<Head(blob)>> \o DecodeText(Tail(blob))

\* --------------------------------------------------------- configuration
\* nioini.dumps({'workspace': attr}): the section header, then each option
\* as a key line and a value line
RECURSIVE DumpOptions(_, _)
DumpOptions(keys, attr) ==
    IF keys = <<>> THEN <<>>
    ELSE (IF \E kv \in attr : kv[1] = Head(keys)
          THEN <<Head(keys), (CHOOSE kv \in attr : kv[1] = Head(keys))[2]>>
          ELSE <<>>)
         \o DumpOptions(Tail(keys), attr)

IniDumps(attr) == <<"[workspace]">> \o DumpOptions(CONFIG_STRUCT, attr)

IsHeader(line) == line \in {"[workspace]", "[other]"}

\* ConfigParser.read_file: text before the first section header is an error
\* unless it is blank
IniParses(text) ==
    \A i \in 1..Len(text) :
        (\A j \in 1..i : ~IsHeader(text[j])) => text[i] = "LF"

\* nioini.parse with CONFIG_STRUCT: only the section 'workspace' is kept
IniSections(text) ==
    IF \E i \in 1..Len(text) : text[i] = "[workspace]"
    THEN {"workspace"} ELSE {}

RECURSIVE ParseOptions(_)
ParseOptions(lines) ==
    IF Len(lines) < 2 \/ IsHeader(lines[1]) THEN {}
    ELSE {<<lines[1], lines[2]>>} \cup ParseOptions(Tail(Tail(lines)))

IniOptions(text) ==
    LET i == CHOOSE k \in 1..Len(text) : text[k] = "[workspace]"
    IN ParseOptions(SubSeq(text, i + 1, Len(text)))

\* -------------------------------------------------------------- versions
\* of equal timestamps the member that comes later in the archive is put
\* first
RECURSIVE SortByTime_TiesReversed(_)
SortByTime_TiesReversed(zinfos) ==
    IF zinfos = <<>> THEN <<>>
    ELSE LET z == zinfos[Len(zinfos)]
             s == SortByTime_TiesReversed(
                      SubSeq(zinfos, 1, Len(zinfos) - 1))
             k == Cardinality({i \in 1..Len(s) :
                                  s[i].date_time < z.date_time})
         IN SubSeq(s, 1, k) \o <<z>> \o SubSeq(s, k + 1, Len(s))

\* sorted(matches, key=date_time): stable, ascending
RECURSIVE SortByTime(_)
SortByTime(zinfos) ==
    IF zinfos = <<>> THEN <<>>
    ELSE LET z == zinfos[Len(zinfos)]
             s == SortByTime(SubSeq(zinfos, 1, Len(zinfos) - 1))
             k == Cardinality({i \in 1..Len(s) :
                                  s[i].date_time <= z.date_time})
         IN SubSeq(s, 1, k) \o <<z>> \o SubSeq(s, k + 1, Len(s))

Locate(filelist, path, sort) ==
    LET matches == SelectSeq(filelist,
                             LAMBDA i : SamePath(i.filename, path))
    IN IF sort THEN SortByTime(matches) ELSE matches

\* matches[0] in place of matches[-1]
Last_First(s) == s[1]

Last(s) == s[Len(s)]

\* no version is selected for removal
AllButLast_None(s) == <<>>

\* matches[1:] in place of matches[:-1]
AllButLast_Oldest(s) == SubSeq(s, 2, Len(s))

\* the list without its last element: matches[:-1]
AllButLast(s) == SubSeq(s, 1, Len(s) - 1)

ZId(zinfo) == <<zinfo.filename, zinfo.date_time>>

\* list.remove(x): drops the first occurrence
RemoveFirst(s, x) ==
    LET i == CHOOSE k \in 1..Len(s) :
                 s[k] = x /\ \A j \in 1..(k - 1) : s[j] # x
    IN SubSeq(s, 1, i - 1) \o SubSeq(s, i + 1, Len(s))

RECURSIVE Concat(_)
Concat(ss) == IF ss = <<>> THEN <<>> ELSE Head(ss) \o Concat(Tail(ss))

\* ------------------------------------------------------ results of a call
\* a call returns the store it leaves behind, the error it raised ("ok"
\* when it returned) and the value it returned
Ok(ws) == [ws |-> ws, err |-> "ok", ret |-> <<>>]

Fail(ws, err) == [ws |-> ws, err |-> err, ret |-> <<>>]

\* ------------------------------------------------------------ member I/O
\* the flag _changed is not set
OpenWrite_NoFlag(ws, path, isdir, time) ==
    LET zinfo == [filename |-> [parts |-> AsPosix(path).parts,
                                slash |-> isdir],
                  date_time |-> time]
    IN IF ~ws.file.fp
       THEN [ws |-> ws, err |-> "ValueError", zinfo |-> zinfo]
       ELSE [ws |-> ws, err |-> "ok", zinfo |-> zinfo]

\* ZipFile.open raises ValueError on an archive that was closed
OpenWrite(ws, path, isdir, time) ==
    LET zinfo == [filename |-> [parts |-> AsPosix(path).parts,
                                slash |-> isdir],
                  date_time |-> time]
    IN IF ~ws.file.fp
       THEN [ws |-> ws, err |-> "ValueError", zinfo |-> zinfo]
       ELSE [ws |-> [ws EXCEPT !.changed = TRUE], err |-> "ok",
             zinfo |-> zinfo]

OpenRead(ws, path) ==
    LET matches == Locate(ws.file.filelist, path, TRUE)
    IN IF matches = <<>>
       THEN [err |-> "FileNotFoundError", data |-> <<>>]
       ELSE IF ~ws.file.fp
       THEN [err |-> "ValueError", data |-> <<>>]
       ELSE [err |-> "ok", data |-> Last(matches).data]

\* the member overwrites the versions of its name, where there are any
CloseWrite_InPlace(ws, zinfo, data) ==
    LET member == [filename |-> zinfo.filename,
                   date_time |-> zinfo.date_time, data |-> data]
        filelist == ws.file.filelist
    IN [ws EXCEPT !.file.filelist =
          IF \E i \in 1..Len(filelist) :
                filelist[i].filename = zinfo.filename
          THEN [i \in 1..Len(filelist) |->
                  IF filelist[i].filename = zinfo.filename THEN member
                  ELSE filelist[i]]
          ELSE Append(filelist, member)]

\* closing the handle of a written member appends the member to the archive
CloseWrite(ws, zinfo, data) ==
    [ws EXCEPT !.file.filelist =
        Append(@, [filename |-> zinfo.filename,
                   date_time |-> zinfo.date_time, data |-> data])]

\* open() together with the body of its with statement: a writer writes
\* wdata to the stream, a reader reads the stream to its end
Open(ws, path, mode, isdir, wdata, time) ==
    IF "w" \in mode
    THEN IF "r" \in mode THEN Fail(ws, "ValueError")
         ELSE LET w == OpenWrite(ws, path, isdir, time)
              IN IF w.err # "ok" THEN Fail(w.ws, w.err)
                 ELSE IF "b" \in mode /\ "t" \in mode
                 THEN Fail(CloseWrite(w.ws, w.zinfo, <<>>), "ValueError")
                 ELSE Ok(CloseWrite(w.ws, w.zinfo,
                                    IF "b" \in mode THEN wdata
                                    ELSE EncodeText(wdata)))
    ELSE LET r == OpenRead(ws, path)
         IN IF r.err # "ok" THEN Fail(ws, r.err)
            ELSE IF "b" \in mode /\ "t" \in mode THEN Fail(ws, "ValueError")
            ELSE [ws |-> ws, err |-> "ok",
                  ret |-> IF "b" \in mode THEN r.data
                          ELSE DecodeText(r.data)]

read_text(ws, filepath) == Open(ws, filepath, {"r"}, FALSE, <<>>, 0)

read_bytes(ws, filepath) == Open(ws, filepath, {"r", "b"}, FALSE, <<>>, 0)

write_text(ws, text, filepath, time) ==
    Open(ws, filepath, {"w"}, FALSE, text, time)

write_bytes(ws, blob, filepath, time) ==
    Open(ws, filepath, {"w", "b"}, FALSE, blob, time)

\* ---------------------------------------------------------------- search
\* a path is listed once for every member
UniquePaths_All(filelist, paths) ==
    paths \o [i \in 1..Len(filelist) |->
                [parts |-> AsPosix(filelist[i].filename).parts,
                 slash |-> is_dir(filelist[i])]]

RECURSIVE UniquePaths(_, _)
UniquePaths(filelist, paths) ==
    IF filelist = <<>> THEN paths
    ELSE LET zinfo == Head(filelist)
             path == [parts |-> AsPosix(zinfo.filename).parts,
                      slash |-> is_dir(zinfo)]
         IN UniquePaths(Tail(filelist),
                        IF \E i \in 1..Len(paths) : paths[i] = path
                        THEN paths ELSE Append(paths, path))

\* the names of the model that end in '.ini'
IniNames == {"workspace.ini"}

\* npath.match for the pattern dirname + '*', the paths below the directory,
\* and for the pattern '*.ini', the files whose name ends in '.ini'
Match(paths, pattern) ==
    SelectSeq(paths, LAMBDA p :
        IF pattern.kind = "below"
        THEN /\ Len(p.parts) > Len(pattern.parts)
             /\ SubSeq(p.parts, 1, Len(pattern.parts)) = pattern.parts
        ELSE ~p.slash /\ p.parts[Len(p.parts)] \in IniNames)

NoPattern == [kind |-> "none", parts |-> <<>>]

Below(dirpath) == [kind |-> "below", parts |-> dirpath.parts]

AnyIni == [kind |-> "ini", parts |-> <<>>]

get_files(ws, pattern) ==
    LET paths == UniquePaths(ws.file.filelist, <<>>)
    IN SortPaths(IF pattern.kind # "none" THEN Match(paths, pattern)
                 ELSE paths)

\* the names are returned in the order of the archive
get_folders_Unsorted(ws) ==
    LET dirs == SelectSeq(ws.file.filelist, is_dir)
    IN [i \in 1..Len(dirs) |->
           [parts |-> dirs[i].filename.parts, slash |-> TRUE]]

\* the names of the directory markers, one for every marker, sorted
get_folders(ws) ==
    LET dirs == SelectSeq(ws.file.filelist, is_dir)
    IN SortPaths([i \in 1..Len(dirs) |->
                     [parts |-> dirs[i].filename.parts, slash |-> TRUE]])

\* --------------------------------------------------------------- removal
RECURSIVE ScanMembers(_, _, _)
ScanMembers(filelist, zids, new_zinfos) ==
    IF filelist = <<>> THEN [new_zinfos |-> new_zinfos, zids |-> zids]
    ELSE LET zid == ZId(Head(filelist))
         IN IF \E i \in 1..Len(zids) : zids[i] = zid
            THEN ScanMembers(Tail(filelist), RemoveFirst(zids, zid),
                             new_zinfos)
            ELSE ScanMembers(Tail(filelist), zids,
                             Append(new_zinfos, Head(filelist)))

\* every member that has the name of a listed one is removed
RemoveMembers_ByName(ws, zinfos) ==
    IF zinfos = <<>> THEN Ok(ws)
    ELSE IF ~ws.file.fp THEN Fail(ws, "ValueError")
    ELSE Ok([ws EXCEPT
               !.file = [fp |-> TRUE,
                         filelist |->
                            SelectSeq(ws.file.filelist, LAMBDA zinfo :
                               \A k \in 1..Len(zinfos) :
                                  zinfos[k].filename # zinfo.filename)],
               !.buffer = [closed |-> FALSE],
               !.changed = TRUE])

\* the archive is rebuilt for an empty list as well
RemoveMembers_Rebuild(ws, zinfos) ==
    LET zids == [i \in 1..Len(zinfos) |-> ZId(zinfos[i])]
        scan == ScanMembers(ws.file.filelist, zids, <<>>)
    IN IF scan.zids # <<>> THEN Fail(ws, "FileNotFoundError")
       ELSE IF scan.new_zinfos # <<>> /\ ~ws.file.fp
       THEN Fail(ws, "ValueError")
       ELSE Ok([ws EXCEPT
                  !.file = [fp |-> TRUE, filelist |-> scan.new_zinfos],
                  !.buffer = [closed |-> FALSE],
                  !.changed = TRUE])

\* the new archive is built before the old one is given up; reading the
\* members to keep raises ValueError when the archive was closed
RemoveMembers(ws, zinfos) ==
    IF zinfos = <<>> THEN Ok(ws)
    ELSE LET zids == [i \in 1..Len(zinfos) |-> ZId(zinfos[i])]
             scan == ScanMembers(ws.file.filelist, zids, <<>>)
         IN IF scan.zids # <<>> THEN Fail(ws, "FileNotFoundError")
            ELSE IF scan.new_zinfos # <<>> /\ ~ws.file.fp
            THEN Fail(ws, "ValueError")
            ELSE Ok([ws EXCEPT
                       !.file = [fp |-> TRUE,
                                 filelist |-> scan.new_zinfos],
                       !.buffer = [closed |-> FALSE],
                       !.changed = TRUE])

RemoveDuplicates(ws) ==
    LET files == get_files(ws, NoPattern)
    IN RemoveMembers(ws,
           Concat([i \in 1..Len(files) |->
                      AllButLast(Locate(ws.file.filelist, files[i], TRUE))]))

\* ignore_missing is not looked at
unlink_Strict(ws, filepath, ignore_missing) ==
    LET matches == Locate(ws.file.filelist, filepath, TRUE)
    IN IF matches = <<>> THEN Fail(ws, "FileNotFoundError")
       ELSE IF is_dir(Last(matches)) THEN Fail(ws, "IsADirectoryError")
       ELSE RemoveMembers(ws, matches)

\* the newest version alone is removed
unlink_Newest(ws, filepath, ignore_missing) ==
    LET matches == Locate(ws.file.filelist, filepath, TRUE)
    IN IF matches = <<>>
       THEN (IF ignore_missing THEN Ok(ws)
             ELSE Fail(ws, "FileNotFoundError"))
       ELSE IF is_dir(Last(matches)) THEN Fail(ws, "IsADirectoryError")
       ELSE RemoveMembers(ws, <<Last(matches)>>)

unlink(ws, filepath, ignore_missing) ==
    LET matches == Locate(ws.file.filelist, filepath, TRUE)
    IN IF matches = <<>>
       THEN (IF ignore_missing THEN Ok(ws)
             ELSE Fail(ws, "FileNotFoundError"))
       ELSE IF is_dir(Last(matches)) THEN Fail(ws, "IsADirectoryError")
       ELSE RemoveMembers(ws, matches)

\* a marker is written whether or not the path has members
mkdir_Always(ws, dirpath, ignore_exists, time) ==
    Open(ws, dirpath, {"w"}, TRUE, <<>>, time)

mkdir(ws, dirpath, ignore_exists, time) ==
    LET matches == Locate(ws.file.filelist, dirpath, TRUE)
    IN IF matches = <<>>
       THEN Open(ws, dirpath, {"w"}, TRUE, <<>>, time)
       ELSE IF ~ignore_exists THEN Fail(ws, "FileExistsError")
       ELSE Ok(ws)

rmdir(ws, dirpath, recursive, ignore_missing) ==
    LET matches == Locate(ws.file.filelist, dirpath, TRUE)
        files == get_files(ws, Below(dirpath))
    IN IF matches = <<>>
       THEN (IF ignore_missing THEN Ok(ws)
             ELSE Fail(ws, "FileNotFoundError"))
       ELSE IF files = <<>> THEN RemoveMembers(ws, matches)
       ELSE IF ~recursive THEN Fail(ws, "DirNotEmptyError")
       ELSE RemoveMembers(ws,
                matches \o Concat([i \in 1..Len(files) |->
                    Locate(ws.file.filelist, files[i], TRUE)]))

\* ------------------------------------------------------- load and save
\* a file of the disk: absent, not a zip file, or a zip file and its entries
Absent == [kind |-> "absent", entries |-> <<>>]

Garbage == [kind |-> "garbage", entries |-> <<>>]

ZipOf(entries) == [kind |-> "zip", entries |-> entries]

\* the directory of a zip file stores the time of an entry in steps of two
\* seconds
DosTime(t) == t - (t % 2)

Stored(filelist) ==
    [i \in 1..Len(filelist) |->
        [filelist[i] EXCEPT !.date_time = DosTime(@)]]

\* open(path, 'wb') fails in a directory that does not exist
Writable(filepath) == filepath # "nodir/ws.zip"

\* the first entry of every name alone is copied
load_Compacting(disk, filepath) ==
    LET ws0 == [attr |-> {}, changed |-> FALSE, path |-> filepath,
                buffer |-> [closed |-> FALSE],
                file |-> [fp |-> TRUE, filelist |-> <<>>]]
        zipfile == disk[filepath]
        firsts == {i \in 1..Len(zipfile.entries) :
                     \A j \in 1..(i - 1) :
                        zipfile.entries[j].filename
                            # zipfile.entries[i].filename}
        ws1 == [ws0 EXCEPT !.file.filelist =
                   Concat([i \in 1..Len(zipfile.entries) |->
                              IF i \in firsts THEN <<zipfile.entries[i]>>
                              ELSE <<>>])]
        cfg == Open(ws1, CONFIG_FILE, {}, FALSE, <<>>, 0)
        rsec == {"workspace"}
    IN IF zipfile.kind = "absent" THEN Fail(ws0, "FileNotFoundError")
       ELSE IF zipfile.kind # "zip" THEN Fail(ws0, "BadZipFile")
       ELSE IF cfg.err # "ok" THEN Fail(ws1, cfg.err)
       ELSE IF ~IniParses(cfg.ret) THEN Fail(ws1, "ParsingError")
       ELSE IF IniSections(cfg.ret) \subseteq rsec
               /\ IniSections(cfg.ret) # rsec
       THEN Fail(ws1, "UnboundLocalError")
       ELSE Ok([ws1 EXCEPT !.attr = IniOptions(cfg.ret)])

load(disk, filepath) ==
    LET ws0 == [attr |-> {}, changed |-> FALSE, path |-> filepath,
                buffer |-> [closed |-> FALSE],
                file |-> [fp |-> TRUE, filelist |-> <<>>]]
        zipfile == disk[filepath]
        ws1 == [ws0 EXCEPT !.file.filelist = zipfile.entries]
        \* 'with self.open(self.CONFIG_FILE) as file': the error of a
        \* missing member is FileNotFoundError, not the KeyError caught here
        cfg == Open(ws1, CONFIG_FILE, {}, FALSE, <<>>, 0)
        rsec == {"workspace"}
    IN IF zipfile.kind = "absent" THEN Fail(ws0, "FileNotFoundError")
       ELSE IF zipfile.kind # "zip" THEN Fail(ws0, "BadZipFile")
       ELSE IF cfg.err # "ok" THEN Fail(ws1, cfg.err)
       ELSE IF ~IniParses(cfg.ret) THEN Fail(ws1, "ParsingError")
       \* 'rsec > cfg.keys()' then 'raise BadWsFile(...) from err' with err
       \* unbound
       ELSE IF IniSections(cfg.ret) \subseteq rsec
               /\ IniSections(cfg.ret) # rsec
       THEN Fail(ws1, "UnboundLocalError")
       ELSE Ok([ws1 EXCEPT !.attr = IniOptions(cfg.ret)])

\* the result of saveas and save: the store and the disk they leave behind
saveas(ws, disk, filepath, time) ==
    LET cfg == Open(ws, CONFIG_FILE, {"w"}, FALSE, IniDumps(ws.attr), time)
        dup == RemoveDuplicates(cfg.ws)
        closed == [dup.ws EXCEPT !.file.fp = FALSE]
        disk1 == [disk EXCEPT
                    ![filepath] = ZipOf(Stored(closed.file.filelist))]
        reload == load(disk1, filepath)
    IN IF cfg.err # "ok"
       THEN [ws |-> cfg.ws, disk |-> disk, err |-> cfg.err]
       ELSE IF dup.err # "ok"
       THEN [ws |-> dup.ws, disk |-> disk, err |-> dup.err]
       ELSE IF ~Writable(filepath)
       THEN [ws |-> closed, disk |-> disk, err |-> "FileNotFoundError"]
       ELSE [ws |-> reload.ws, disk |-> disk1, err |-> reload.err]

None == "None"

save(ws, disk, time) ==
    IF ws.path # None THEN saveas(ws, disk, ws.path, time)
    ELSE [ws |-> ws, disk |-> disk, err |-> "FileNotGivenError"]

\* the buffer of a closed store is opened again
close_Toggle(ws) ==
    [ws EXCEPT !.file.fp = FALSE, !.buffer = [closed |-> ~ws.buffer.closed]]

close(ws) == [ws EXCEPT !.file.fp = FALSE, !.buffer = [closed |-> TRUE]]

RECURSIVE MakeFolders(_, _, _)
MakeFolders(ws, folders, time) ==
    IF folders = <<>> THEN ws
    ELSE MakeFolders(mkdir(ws, [parts |-> <<Head(folders)>>,
                                slash |-> FALSE], FALSE, time).ws,
                     Tail(folders), time)

create_new(time) ==
    MakeFolders([attr |-> CONFIG_DEFAULT, changed |-> FALSE, path |-> None,
                 buffer |-> [closed |-> FALSE],
                 file |-> [fp |-> TRUE, filelist |-> <<>>]],
                DIR_LAYOUT, time)

\* assignment to one of the attributes about, email, license, maintainer,
\* startup
SetAttribute(ws, key, value) ==
    [ws EXCEPT !.attr = {kv \in @ : kv[1] # key} \cup {<<key, value>>}]

\* ================================================================ state
VARIABLES attr, changed, path, buffer, file, disk, now, calls, last,
          pc, frame, bound, seen

vars == <<attr, changed, path, buffer, file, disk, now, calls, last,
          pc, frame, bound, seen>>

\* the fields of the store as one value
Store == [attr |-> attr, changed |-> changed, path |-> path,
          buffer |-> buffer, file |-> file]

\* ---------------------------------------------------------------- inputs
NoPath == [parts |-> <<>>, slash |-> FALSE]

Paths == {[parts |-> <<"dataset">>, slash |-> FALSE],
          [parts |-> <<"dataset", "x">>, slash |-> FALSE]}

Payloads == {<<"a">>, <<"CR", "LF">>}

BadModes == {{"r", "w"}, {"w", "b", "t"}, {"r", "b", "t"}}

SaveTargets == {"out.zip", "nodir/ws.zip"}

DiskPaths == {"out.zip", "bad.zip", "nocfg.zip", "nosec.zip", "good.zip"}

Member(parts, time, data) ==
    [filename |-> [parts |-> parts, slash |-> FALSE], date_time |-> time,
     data |-> data]

Marker(parts, time) ==
    [filename |-> [parts |-> parts, slash |-> TRUE], date_time |-> time,
     data |-> <<>>]

\* the files found on the disk: nothing at the save target, a file that is
\* no zip file, a zip file without workspace.ini, one whose workspace.ini
\* has no section 'workspace', and a workspace file that holds two versions
\* of one member, the newer one first, and a folder within a folder
InitialDisk ==
    [f \in DiskPaths |->
        CASE f = "bad.zip" -> Garbage
          [] f = "nocfg.zip" -> ZipOf(<<Member(<<"dataset", "x">>, 0, <<"a">>)>>)
          [] f = "nosec.zip" ->
                ZipOf(<<Member(<<"workspace.ini">>, 0, <<"[other]">>)>>)
          [] f = "good.zip" ->
                ZipOf(<<Member(<<"workspace.ini">>, 0,
                               IniDumps(CONFIG_DEFAULT)),
                        Member(<<"dataset", "x">>, 2, <<"a">>),
                        Member(<<"dataset", "x">>, 0, <<"CR", "LF">>),
                        Marker(<<"dataset">>, 0),
                        Marker(<<"dataset", "sub">>, 0),
                        Member(<<"dataset", "sub", "y">>, 0, <<"a">>)>>)
          [] OTHER -> Absent]

\* the record of a call: its name and arguments, the error it raised ("ok"
\* when it returned), the value it returned, and the number of members the
\* archive had when it was made
Call(op, p, f, data, r, found) ==
    [op |-> op, path |-> p, fpath |-> f, data |-> data, err |-> r.err,
     ret |-> r.ret, found |-> found, size |-> Len(file.filelist),
     flags |-> {}]

\* the keyword arguments of a call that are true
Flag(name, value) == IF value THEN {name} ELSE {}

\* the store is the one a call leaves behind
Becomes(ws) ==
    /\ attr' = ws.attr
    /\ changed' = ws.changed
    /\ path' = ws.path
    /\ buffer' = ws.buffer
    /\ file' = ws.file

\* the stream of a member that open() hands to the body of a with statement
NoStream == [kind |-> "none", closed |-> TRUE,
             zinfo |-> [filename |-> NoPath, date_time |-> 0],
             data |-> <<>>]

\* the local variables of the call that is running: the arguments path and
\* mode and the stream of open(), the error that is on its way to the
\* caller, and new_zinfos, new_buffer and new_file of _remove_members
NoFrame == [op |-> "none", path |-> NoPath, mode |-> {}, raised |-> "ok",
            stream |-> NoStream, new_zinfos |-> <<>>,
            new_buffer |-> [closed |-> TRUE],
            new_file |-> [fp |-> FALSE, filelist |-> <<>>]]

\* what a second thread has read of the fields _file and _buffer, and the
\* statement the first thread was at when it did
Nothing == [at |-> "never", fp |-> FALSE, closed |-> TRUE, bound |-> TRUE]

\* one more call is made on the store, by the thread that runs no call
MayCall == calls < MaxCalls /\ pc = "idle"

\* the call runs from its first statement to its last without another
\* thread in between
Called == calls' = calls + 1 /\ UNCHANGED <<pc, frame, bound, seen>>

\* WsFile() at two seconds past the start of the clock
Init ==
    /\ now = 2
    /\ calls = 0
    /\ disk = InitialDisk
    /\ \E ws \in {create_new(2)} :
          /\ attr = ws.attr
          /\ changed = ws.changed
          /\ path = ws.path
          /\ buffer = ws.buffer
          /\ file = ws.file
    /\ last = [op |-> "create_new", path |-> NoPath, fpath |-> "",
               data |-> <<>>, err |-> "ok", ret |-> <<>>, found |-> <<>>,
               size |-> 0, flags |-> {}]
    /\ pc = "idle"
    /\ frame = NoFrame
    /\ bound = TRUE
    /\ seen = Nothing

\* --------------------------------------------------------------- actions
Tick ==
    /\ now < MaxClock
    /\ MayCall
    /\ now' = now + 1
    /\ UNCHANGED <<attr, changed, path, buffer, file, disk, calls, last,
                   pc, frame, bound, seen>>

Load(f) ==
    /\ MayCall
    /\ \E r \in {load(disk, f)} :
        /\ Called
        /\ Becomes(r.ws)
        /\ last' = Call("load", NoPath, f, <<>>, r, <<>>)
        /\ UNCHANGED <<disk, now>>

Close ==
    /\ MayCall
    /\ \E r \in {Ok(close(Store))} :
        /\ Called
        /\ Becomes(r.ws)
        /\ last' = [Call("close", NoPath, "", <<>>, r, <<>>) EXCEPT
                        !.flags = Flag("closed", ~file.fp /\ buffer.closed)]
        /\ UNCHANGED <<disk, now>>

ReadText(p) ==
    /\ MayCall
    /\ \E r \in {read_text(Store, p)} :
        /\ Called
        /\ Becomes(r.ws)
        /\ last' = Call("read_text", p, "", <<>>, r, <<>>)
        /\ UNCHANGED <<disk, now>>

ReadBytes(p) ==
    /\ MayCall
    /\ \E r \in {read_bytes(Store, p)} :
        /\ Called
        /\ Becomes(r.ws)
        /\ last' = Call("read_bytes", p, "", <<>>, r, <<>>)
        /\ UNCHANGED <<disk, now>>

WriteText(p, text) ==
    /\ MayCall
    /\ \E r \in {write_text(Store, text, p, now)} :
        /\ Called
        /\ Becomes(r.ws)
        /\ last' = Call("write_text", p, "", text, r, <<>>)
        /\ UNCHANGED <<disk, now>>

WriteBytes(p, blob) ==
    /\ MayCall
    /\ \E r \in {write_bytes(Store, blob, p, now)} :
        /\ Called
        /\ Becomes(r.ws)
        /\ last' = Call("write_bytes", p, "", blob, r, <<>>)
        /\ UNCHANGED <<disk, now>>

\* open() with a mode string that it rejects
OpenBadMode(p, mode) ==
    /\ MayCall
    /\ \E r \in {Open(Store, p, mode, FALSE, <<>>, now)} :
        /\ Called
        /\ Becomes(r.ws)
        /\ last' = Call("open", p, "", <<>>, r, <<>>)
        /\ UNCHANGED <<disk, now>>

Unlink(p, ignore_missing) ==
    /\ MayCall
    /\ \E r \in {unlink(Store, p, ignore_missing)} :
        /\ Called
        /\ Becomes(r.ws)
        /\ last' = [Call("unlink", p, "", <<>>, r, <<>>) EXCEPT
                        !.flags = Flag("ignore_missing", ignore_missing)]
        /\ UNCHANGED <<disk, now>>

Mkdir(p, ignore_exists) ==
    /\ MayCall
    /\ \E r \in {mkdir(Store, p, ignore_exists, now)} :
        /\ Called
        /\ Becomes(r.ws)
        /\ last' = [Call("mkdir", p, "", <<>>, r, <<>>) EXCEPT
                        !.flags = Flag("ignore_exists", ignore_exists)]
        /\ UNCHANGED <<disk, now>>

Rmdir(p, recursive, ignore_missing) ==
    /\ MayCall
    /\ \E r \in {rmdir(Store, p, recursive, ignore_missing)} :
        /\ Called
        /\ Becomes(r.ws)
        /\ last' = [Call("rmdir", p, "", <<>>, r, <<>>) EXCEPT
                        !.flags = Flag("recursive", recursive)
                                  \cup Flag("ignore_missing",
                                            ignore_missing)]
        /\ UNCHANGED <<disk, now>>

Search(pattern) ==
    /\ MayCall
    /\ Called
    /\ last' = Call("search", NoPath, "", <<pattern.kind>> \o pattern.parts,
                    Ok(Store), get_files(Store, pattern))
    /\ UNCHANGED <<attr, changed, path, buffer, file, disk, now>>

Save ==
    /\ MayCall
    /\ \E r \in {save(Store, disk, now)} :
        /\ Called
        /\ Becomes(r.ws)
        /\ disk' = r.disk
        /\ last' = Call("save", NoPath, path, <<>>,
                        [err |-> r.err, ret |-> <<>>], <<>>)
        /\ UNCHANGED now

SaveAs(f) ==
    /\ MayCall
    /\ \E r \in {saveas(Store, disk, f, now)} :
        /\ Called
        /\ Becomes(r.ws)
        /\ disk' = r.disk
        /\ last' = Call("saveas", NoPath, f, <<>>,
                        [err |-> r.err, ret |-> <<>>], <<>>)
        /\ UNCHANGED now

\* assignment to the attribute about
SetAttr(value) ==
    /\ MayCall
    /\ \E r \in {Ok(SetAttribute(Store, "about", value))} :
        /\ Called
        /\ Becomes(r.ws)
        /\ last' = Call("setattr", NoPath, "", <<>>, r, <<>>)
        /\ UNCHANGED <<disk, now>>

Next ==
    \/ Tick
    \/ \E f \in DiskPaths : Load(f)
    \/ Close
    \/ \E p \in Paths \cup {CONFIG_FILE} : ReadText(p)
    \/ \E p \in Paths : ReadBytes(p)
    \/ \E p \in Paths, d \in Payloads : WriteText(p, d)
    \/ \E p \in Paths, d \in Payloads : WriteBytes(p, d)
    \/ \E mode \in BadModes :
          OpenBadMode([parts |-> <<"dataset", "x">>, slash |-> FALSE], mode)
    \/ \E p \in Paths, i \in BOOLEAN : Unlink(p, i)
    \/ \E p \in Paths, i \in BOOLEAN : Mkdir(p, i)
    \/ \E p \in Paths, r \in BOOLEAN, i \in BOOLEAN : Rmdir(p, r, i)
    \/ \E pattern \in {NoPattern, AnyIni,
                          Below([parts |-> <<"dataset">>])} :
          Search(pattern)
    \/ Save
    \/ \E f \in SaveTargets : SaveAs(f)
    \/ \E v \in {"text"} : SetAttr(v)

Spec == Init /\ [][Next]_vars

\* ------------------------------------------------ one statement at a time
\* The with statement on open() and the call of _remove_members, statement
\* by statement, with a second thread that reads the fields of the store in
\* between. pc names the statement that the running call executes next.

\* a body that raised leaves the with statement at once
AfterBody_Unwound(raises) == IF raises THEN "idle" ELSE "finally"

\* the body of a with statement that raised leaves through the finally
\* clause of open() as the one that returned does
AfterBody(raises) == "finally"

\* open() up to its yield: the errors of the mode and of _open_read and
\* _open_write leave the call before the try statement, the one of 'b' with
\* 't' is raised within it
Enter(ws, filepath, mode, time) ==
    LET within == IF "b" \in mode /\ "t" \in mode
                  THEN [pc |-> "finally", err |-> "ValueError"]
                  ELSE [pc |-> "body", err |-> "ok"]
    IN IF "w" \in mode
       THEN IF "r" \in mode
            THEN [ws |-> ws, err |-> "ValueError", pc |-> "idle",
                  stream |-> NoStream]
            ELSE LET w == OpenWrite(ws, filepath, FALSE, time)
                 IN IF w.err # "ok"
                    THEN [ws |-> w.ws, err |-> w.err, pc |-> "idle",
                          stream |-> NoStream]
                    ELSE [ws |-> w.ws, err |-> within.err, pc |-> within.pc,
                          stream |-> [kind |-> "w", closed |-> FALSE,
                                      zinfo |-> w.zinfo, data |-> <<>>]]
       ELSE LET r == OpenRead(ws, filepath)
            IN IF r.err # "ok"
               THEN [ws |-> ws, err |-> r.err, pc |-> "idle",
                     stream |-> NoStream]
               ELSE [ws |-> ws, err |-> within.err, pc |-> within.pc,
                     stream |-> [NoStream EXCEPT !.kind = "r",
                                                 !.closed = FALSE,
                                                 !.data = r.data]]

\* file.close() of the stream: the member of a writer is appended to the
\* archive
Exit(ws, stream) ==
    [ws |-> IF stream.kind = "w"
            THEN CloseWrite(ws, stream.zinfo, stream.data)
            ELSE ws,
     stream |-> [stream EXCEPT !.closed = TRUE]]

\* the statements of _remove_members that give up the old archive and link
\* the new one
SwapSteps == <<"close_file", "close_buffer", "link_buffer", "link_file",
               "set_changed">>

AfterSwap(at) ==
    IF at = "set_changed" THEN "idle"
    ELSE SwapSteps[1 + CHOOSE i \in 1..Len(SwapSteps) : SwapSteps[i] = at]

\* the five statements are one
Swap_Atomic(at, ws, fr, linked) ==
    IF at = "close_file"
    THEN [ws |-> [ws EXCEPT !.buffer = fr.new_buffer, !.file = fr.new_file,
                            !.changed = TRUE],
          bound |-> TRUE]
    ELSE [ws |-> ws, bound |-> linked]

\* self._file.close(); self._buffer.close(); self._buffer = new_buffer;
\* self._file = new_file; self._changed = True
Swap(at, ws, fr, linked) ==
    CASE at = "close_file" ->
            [ws |-> [ws EXCEPT !.file.fp = FALSE], bound |-> linked]
      [] at = "close_buffer" ->
            [ws |-> [ws EXCEPT !.buffer.closed = TRUE], bound |-> linked]
      [] at = "link_buffer" ->
            [ws |-> [ws EXCEPT !.buffer = fr.new_buffer], bound |-> FALSE]
      [] at = "link_file" ->
            [ws |-> [ws EXCEPT !.file = fr.new_file], bound |-> TRUE]
      [] at = "set_changed" ->
            [ws |-> [ws EXCEPT !.changed = TRUE], bound |-> linked]

\* the lists that unlink hands to _remove_members
UnlinkRequests(ws) == {Locate(ws.file.filelist, p, TRUE) : p \in Paths}

\* the list that _remove_duplicates hands to _remove_members
DuplicateRequests(ws) ==
    LET files == get_files(ws, NoPattern)
    IN {Concat([i \in 1..Len(files) |->
           AllButLast(Locate(ws.file.filelist, files[i], TRUE))])}

WithEnter(p, mode) ==
    /\ MayCall
    /\ \E r \in {Enter(Store, p, mode, now)} :
        /\ calls' = calls + 1
        /\ Becomes(r.ws)
        /\ pc' = r.pc
        /\ frame' = [NoFrame EXCEPT !.op = "open", !.path = p,
                                    !.mode = mode, !.raised = r.err,
                                    !.stream = r.stream]
        /\ last' = IF r.pc = "idle"
                   THEN Call("open", p, "", <<>>,
                             [err |-> r.err, ret |-> <<>>], <<>>)
                   ELSE last
        /\ UNCHANGED <<disk, now, bound, seen>>

\* the body writes wdata to the stream of a writer and reads the stream of
\* a reader, and then returns or raises
WithBody(wdata, raises) ==
    /\ pc = "body"
    /\ pc' = AfterBody(raises)
    /\ frame' = [frame EXCEPT
                    !.raised = IF raises THEN "BodyError" ELSE "ok",
                    !.stream.data =
                        IF frame.stream.kind # "w" THEN @
                        ELSE IF "b" \in frame.mode THEN wdata
                        ELSE EncodeText(wdata)]
    /\ UNCHANGED <<attr, changed, path, buffer, file, disk, now, calls,
                   last, bound, seen>>

WithExit ==
    /\ pc = "finally"
    /\ \E r \in {Exit(Store, frame.stream)} :
        /\ pc' = "idle"
        /\ Becomes(r.ws)
        /\ frame' = [frame EXCEPT !.stream = r.stream]
        /\ last' = Call("open", frame.path, "", frame.stream.data,
                        [err |-> frame.raised, ret |-> <<>>], <<>>)
        /\ UNCHANGED <<disk, now, calls, bound, seen>>

\* _remove_members up to the new archive: the empty list returns, a member
\* that is not found raises FileNotFoundError, and reading the members to
\* keep from a closed archive raises ValueError
Rebuild(zinfos) ==
    /\ MayCall
    /\ \E scan \in {ScanMembers(file.filelist,
                                [i \in 1..Len(zinfos) |-> ZId(zinfos[i])],
                                <<>>)} :
       \E err \in {IF zinfos = <<>> THEN "ok"
                   ELSE IF scan.zids # <<>> THEN "FileNotFoundError"
                   ELSE IF scan.new_zinfos # <<>> /\ ~file.fp
                   THEN "ValueError"
                   ELSE "ok"} :
        /\ calls' = calls + 1
        /\ pc' = IF zinfos = <<>> \/ err # "ok" THEN "idle"
                 ELSE "close_file"
        /\ frame' = [NoFrame EXCEPT
                        !.op = "_remove_members",
                        !.raised = err,
                        !.new_zinfos = scan.new_zinfos,
                        !.new_buffer = [closed |-> pc' = "idle"],
                        !.new_file = [fp |-> pc' # "idle",
                                      filelist |-> IF pc' = "idle" THEN <<>>
                                                   ELSE scan.new_zinfos]]
        /\ last' = IF pc' = "idle"
                   THEN Call("_remove_members", NoPath, "", <<>>,
                             [err |-> err, ret |-> <<>>], <<>>)
                   ELSE last
        /\ UNCHANGED <<attr, changed, path, buffer, file, disk, now, bound,
                       seen>>

SwapStep(at) ==
    /\ pc = at
    /\ \E r \in {Swap(at, Store, frame, bound)} :
        /\ pc' = AfterSwap(at)
        /\ Becomes(r.ws)
        /\ bound' = r.bound
        /\ last' = IF pc' = "idle"
                   THEN Call("_remove_members", NoPath, "", <<>>,
                             [err |-> "ok", ret |-> <<>>], <<>>)
                   ELSE last
        /\ UNCHANGED <<disk, now, calls, frame, seen>>

\* the second thread reads the fields; no lock keeps it from doing so
\* while a call is running
Observe ==
    /\ pc # "idle"
    /\ seen' = [at |-> pc, fp |-> file.fp, closed |-> buffer.closed,
                bound |-> bound]
    /\ UNCHANGED <<attr, changed, path, buffer, file, disk, now, calls,
                   last, pc, frame, bound>>

StepNext ==
    \/ Load("good.zip")
    \/ Close
    \/ \E p \in Paths, mode \in {{"r"}, {"w", "b"}} \cup BadModes :
          WithEnter(p, mode)
    \/ \E raises \in BOOLEAN : WithBody(<<"a">>, raises)
    \/ WithExit
    \/ \E zinfos \in UnlinkRequests(Store) \cup DuplicateRequests(Store) :
          Rebuild(zinfos)
    \/ \E at \in {SwapSteps[i] : i \in 1..Len(SwapSteps)} : SwapStep(at)
    \/ Observe

StepSpec == Init /\ [][StepNext]_vars

\* =============================================================== claims
\* the step is a call on the store
CallStep == calls' = calls + 1

\* the store after the step
StoreAfter == [attr |-> attr', changed |-> changed', path |-> path',
               buffer |-> buffer', file |-> file']

HasVersion(filelist, p) ==
    \E i \in 1..Len(filelist) : SamePath(filelist[i].filename, p)

\* the position of the newest version of a path: the highest timestamp, and
\* among equal timestamps the member written last
NewestIndex(filelist, p) ==
    CHOOSE i \in 1..Len(filelist) :
        /\ SamePath(filelist[i].filename, p)
        /\ \A j \in 1..Len(filelist) :
              SamePath(filelist[j].filename, p) =>
                  \/ filelist[j].date_time < filelist[i].date_time
                  \/ filelist[j].date_time = filelist[i].date_time /\ j <= i

Newest(filelist, p) == filelist[NewestIndex(filelist, p)]

OneVersion(filelist) ==
    \A i, j \in 1..Len(filelist) :
        SamePath(filelist[i].filename, filelist[j].filename) => i = j

MemberOps == {"open", "read_text", "read_bytes", "write_text",
              "write_bytes", "mkdir", "unlink", "rmdir", "search", "save",
              "saveas"}

\* NotFound, AlreadyExists, IsADirectory, DirectoryNotEmpty, CorruptArchive,
\* InvalidWorkspace, NoSourcePath
DataErrors == {"FileNotFoundError", "FileExistsError", "IsADirectoryError",
               "DirNotEmptyError", "BadZipFile", "BadWsFile",
               "FileNotGivenError"}

\* C1: the read_text (read_bytes) that follows a write_text (write_bytes) of
\* the same path returns exactly the payload that was written.
C1_RoundTrip ==
    [][(/\ CallStep
        /\ last.err = "ok"
        /\ last'.path = last.path
        /\ \/ last.op = "write_text" /\ last'.op = "read_text"
           \/ last.op = "write_bytes" /\ last'.op = "read_bytes")
       => last'.err = "ok" /\ last'.ret = last.data]_vars

Saved == CallStep /\ last'.op \in {"save", "saveas"} /\ last'.err = "ok"

Readable(ws, p) == read_bytes(ws, p).err = "ok"

SameReads(ws, before, paths) ==
    \A p \in paths :
        Readable(before, p) =>
            /\ read_bytes(ws, p).err = "ok"
            /\ read_bytes(ws, p).ret = read_bytes(before, p).ret

Mutations == {"write_text", "write_bytes", "mkdir", "unlink", "rmdir"}

\* C5 (as amended): a successful write, mkdir, unlink or rmdir that changes
\* the members leaves the flag changed set, a successful save or saveas
\* leaves it cleared, and no call but a successful save or saveas and a load
\* clears it.
C5_ChangedFlag ==
    [][CallStep =>
        /\ (/\ last'.op \in Mutations
            /\ last'.err = "ok"
            /\ file'.filelist # file.filelist) => changed'
        /\ (last'.op \in {"save", "saveas"} /\ last'.err = "ok") =>
              ~changed'
        /\ (changed /\ ~changed' /\ last'.op # "load") =>
              last'.op \in {"save", "saveas"} /\ last'.err = "ok"
      ]_vars

\* C5 (as stated): the flag changed, once set, stays set until a successful
\* save or saveas.
C5_StaysUntilSave ==
    [][(CallStep /\ changed /\ ~changed') =>
          last'.op \in {"save", "saveas"} /\ last'.err = "ok"]_vars

\* an unlink has removed members of a saved store
C5_Witness ==
    /\ last.op = "unlink"
    /\ last.err = "ok"
    /\ last.size > Len(file.filelist)
    /\ path # None
    /\ changed

\* C6: after create_new and after a successful load the flag changed is
\* not set.
C6_OpenNotChanged ==
    (last.op \in {"create_new", "load"} /\ last.err = "ok") => ~changed

\* the store was closed: the archive and its buffer
Closed == ~file.fp /\ buffer.closed

\* C7: every member operation on a closed store fails, with an error that is
\* none of the data errors.
C7_ClosedFails ==
    [][(CallStep /\ Closed /\ last'.op \in MemberOps) =>
          last'.err \notin DataErrors \cup {"ok"}]_vars

\* C8: a load, save or saveas that fails leaves the members, the attributes,
\* the source path, the flag changed and the open or closed status as they
\* were, and the archive open exactly when its buffer is.
C8_FailureLeavesStore ==
    [][(CallStep /\ last'.op \in {"load", "save", "saveas"}
                 /\ last'.err # "ok") =>
          /\ file' = file
          /\ buffer' = buffer
          /\ attr' = attr
          /\ path' = path
          /\ changed' = changed
          /\ file'.fp = ~buffer'.closed]_vars

\* C9: a member operation that fails leaves the members and the flag
\* changed as they were.
C9_AllOrNothing ==
    [][(/\ CallStep
        /\ last'.op \in {"open", "read_text", "read_bytes", "write_text",
                         "write_bytes", "mkdir", "unlink", "rmdir"}
        /\ last'.err # "ok") =>
          file'.filelist = file.filelist /\ changed' = changed]_vars

\* the configuration of a zip file has the section 'workspace'
HasWorkspace(entries) ==
    /\ HasVersion(entries, CONFIG_FILE)
    /\ \E i \in 1..Len(Newest(entries, CONFIG_FILE).data) :
          Newest(entries, CONFIG_FILE).data[i] = "[workspace]"

\* C10: load fails with FileNotFoundError on a source that does not exist,
\* with BadZipFile on a source that is no zip file, and with BadWsFile on a
\* zip file whose workspace.ini is missing or has no section 'workspace'.
C10_LoadErrors ==
    last.op = "load" =>
        /\ disk[last.fpath].kind = "absent" =>
              last.err = "FileNotFoundError"
        /\ disk[last.fpath].kind = "garbage" => last.err = "BadZipFile"
        /\ (/\ disk[last.fpath].kind = "zip"
            /\ ~HasWorkspace(disk[last.fpath].entries)) =>
              last.err = "BadWsFile"

\* C11: a write_text or write_bytes that returns appends one member for its
\* path, and every member that was there before is still there, in its
\* place, with its path, payload and timestamp.
C11_WriteAppends ==
    [][(/\ CallStep
        /\ last'.op \in {"write_text", "write_bytes"}
        /\ last'.err = "ok") =>
          /\ Len(file'.filelist) = Len(file.filelist) + 1
          /\ SubSeq(file'.filelist, 1, Len(file.filelist)) = file.filelist
          /\ SamePath(file'.filelist[Len(file'.filelist)].filename,
                      last'.path)
          /\ ~file'.filelist[Len(file'.filelist)].filename.slash]_vars

\* a write has added a version to a path that had one with another payload
C11_Witness ==
    /\ last.op \in {"write_text", "write_bytes"}
    /\ last.err = "ok"
    /\ Len(file.filelist) = last.size + 1
    /\ \E i \in 1..last.size :
          /\ file.filelist[i].filename
                = file.filelist[Len(file.filelist)].filename
          /\ file.filelist[i].data
                # file.filelist[Len(file.filelist)].data

\* C12: unlink of a path that has no member returns and leaves the members
\* and the flag changed as they were when ignore_missing is true, and raises
\* FileNotFoundError when it is false.
C12_UnlinkAbsent ==
    [][(/\ CallStep
        /\ last'.op = "unlink"
        /\ ~HasVersion(file.filelist, last'.path)) =>
          /\ last'.err = IF "ignore_missing" \in last'.flags THEN "ok"
                         ELSE "FileNotFoundError"
          /\ file' = file
          /\ changed' = changed]_vars

\* an unlink with ignore_missing has returned for a path without members
C12_Witness ==
    /\ last.op = "unlink"
    /\ last.err = "ok"
    /\ "ignore_missing" \in last.flags
    /\ ~HasVersion(file.filelist, last.path)
    /\ last.size = Len(file.filelist)
    /\ file.fp

\* C13: unlink of a path whose newest member is a directory marker raises
\* IsADirectoryError and removes nothing.
C13_UnlinkDirectory ==
    [][(/\ CallStep
        /\ last'.op = "unlink"
        /\ HasVersion(file.filelist, last'.path)
        /\ Newest(file.filelist, last'.path).filename.slash) =>
          /\ last'.err = "IsADirectoryError"
          /\ file' = file
          /\ changed' = changed]_vars

\* an unlink has refused to remove a directory
C13_Witness ==
    /\ last.op = "unlink"
    /\ last.err = "IsADirectoryError"
    /\ HasVersion(file.filelist, last.path)
    /\ Newest(file.filelist, last.path).filename.slash
    /\ last.size = Len(file.filelist)

\* C14: after an unlink that returns for a path that had members, the path
\* has no member, is not among the paths that search() returns, and
\* read_text of it raises FileNotFoundError.
C14_UnlinkAllVersions ==
    [][(/\ CallStep
        /\ last'.op = "unlink"
        /\ last'.err = "ok"
        /\ HasVersion(file.filelist, last'.path)) =>
          /\ ~HasVersion(file'.filelist, last'.path)
          /\ \A i \in 1..Len(get_files(StoreAfter, NoPattern)) :
                ~SamePath(get_files(StoreAfter, NoPattern)[i], last'.path)
          /\ read_text(StoreAfter, last'.path).err = "FileNotFoundError"
      ]_vars

\* an unlink has removed several members
C14_Witness ==
    /\ last.op = "unlink"
    /\ last.err = "ok"
    /\ last.size >= Len(file.filelist) + 2
    /\ ~HasVersion(file.filelist, last.path)

\* the directory markers of a path
Markers(filelist, p) ==
    {i \in 1..Len(filelist) :
        SamePath(filelist[i].filename, p) /\ filelist[i].filename.slash}

\* C15: mkdir of a path that has a member raises FileExistsError, or with
\* ignore_exists returns, and leaves the members and the flag changed as
\* they were; mkdir of a path without member on an open store appends one
\* directory marker without payload; no path has more than one directory
\* marker.
C15_Mkdir ==
    /\ [][(CallStep /\ last'.op = "mkdir") =>
            IF HasVersion(file.filelist, last'.path)
            THEN /\ last'.err = IF "ignore_exists" \in last'.flags
                                THEN "ok" ELSE "FileExistsError"
                 /\ file' = file
                 /\ changed' = changed
            ELSE file.fp =>
                 /\ last'.err = "ok"
                 /\ file'.filelist =
                       Append(file.filelist,
                              [filename |-> [parts |-> last'.path.parts,
                                             slash |-> TRUE],
                               date_time |-> now, data |-> <<>>])]_vars
    /\ [](\A i \in 1..Len(file.filelist) :
             Cardinality(Markers(file.filelist,
                                 file.filelist[i].filename)) <= 1)

\* a second mkdir of a directory, with ignore_exists, has changed nothing
C15_Witness ==
    /\ last.op = "mkdir"
    /\ last.err = "ok"
    /\ "ignore_exists" \in last.flags
    /\ last.size = Len(file.filelist)
    /\ Cardinality(Markers(file.filelist, last.path)) = 1

\* a member lies below the directory of a path
HasBelow(filelist, p) ==
    \E i \in 1..Len(filelist) :
        /\ Len(filelist[i].filename.parts) > Len(p.parts)
        /\ SubSeq(filelist[i].filename.parts, 1, Len(p.parts)) = p.parts

\* the members but the directory markers of a path
WithoutMarkers(filelist, p) ==
    SelectSeq(filelist, LAMBDA zinfo :
        ~(SamePath(zinfo.filename, p) /\ zinfo.filename.slash))

\* C16: rmdir without recursive of a path that has a directory marker raises
\* DirNotEmptyError and removes nothing when a member lies below the
\* directory, and on an open store removes the directory marker and nothing
\* else when none does.
C16_RmdirNonRecursive ==
    [][(/\ CallStep
        /\ last'.op = "rmdir"
        /\ "recursive" \notin last'.flags
        /\ Markers(file.filelist, last'.path) # {}) =>
          IF HasBelow(file.filelist, last'.path)
          THEN /\ last'.err = "DirNotEmptyError"
               /\ file' = file
               /\ changed' = changed
          ELSE file.fp =>
               /\ last'.err = "ok"
               /\ file'.filelist
                     = WithoutMarkers(file.filelist, last'.path)]_vars

\* the members that are neither a directory marker of a path nor below it
Outside(filelist, p) ==
    SelectSeq(filelist, LAMBDA zinfo :
        /\ ~(SamePath(zinfo.filename, p) /\ zinfo.filename.slash)
        /\ ~(/\ Len(zinfo.filename.parts) > Len(p.parts)
             /\ SubSeq(zinfo.filename.parts, 1, Len(p.parts)) = p.parts))

\* C17: rmdir with recursive of a path that has a directory marker, on an
\* open store, returns and leaves exactly the members that are neither the
\* marker nor below the directory; afterwards the search below the directory
\* finds nothing.
C17_RmdirRecursive ==
    [][(/\ CallStep
        /\ last'.op = "rmdir"
        /\ "recursive" \in last'.flags
        /\ Markers(file.filelist, last'.path) # {}
        /\ file.fp) =>
          /\ last'.err = "ok"
          /\ file'.filelist = Outside(file.filelist, last'.path)
          /\ get_files(StoreAfter, Below(last'.path)) = <<>>]_vars

\* C18: rmdir of a path that has no directory marker leaves the members and
\* the flag changed as they were, and returns when ignore_missing is true
\* and raises FileNotFoundError when it is false, whether or not the path
\* has a file member.
C18_RmdirAbsent ==
    [][(/\ CallStep
        /\ last'.op = "rmdir"
        /\ Markers(file.filelist, last'.path) = {}) =>
          /\ last'.err = IF "ignore_missing" \in last'.flags THEN "ok"
                         ELSE "FileNotFoundError"
          /\ file' = file
          /\ changed' = changed]_vars

\* the path that search() lists for a member
Listed(zinfo) == [parts |-> zinfo.filename.parts,
                  slash |-> zinfo.filename.slash]

\* the glob of a search matches a listed path
Globbed(kind, parts, p) ==
    CASE kind = "none" -> TRUE
      [] kind = "below" -> /\ Len(p.parts) > Len(parts)
                           /\ SubSeq(p.parts, 1, Len(parts)) = parts
      [] kind = "ini" -> ~p.slash /\ p.parts[Len(p.parts)] = "workspace.ini"

C20_Save ==
    [][CallStep =>
        /\ last'.op = "save" =>
              IF path = None
              THEN /\ last'.err = "FileNotGivenError"
                   /\ StoreAfter = Store
                   /\ disk' = disk
              ELSE /\ last'.err # "FileNotGivenError"
                   /\ last'.err = saveas(Store, disk, path, now).err
                   /\ StoreAfter = saveas(Store, disk, path, now).ws
                   /\ disk' = saveas(Store, disk, path, now).disk
        /\ (path = None /\ path' # None) =>
              last'.op \in {"load", "saveas"} /\ last'.err = "ok"]_vars

\* C22: the file on the disk changes only in a step of save or saveas; a
\* load leaves the disk as it was and copies every entry of the source file,
\* all versions of a path included, in the order of the file.
C22_CopyOnOpen ==
    [][/\ disk' # disk =>
              CallStep /\ last'.op \in {"save", "saveas"}
       /\ (CallStep /\ last'.op = "load" /\ last'.err = "ok") =>
              /\ disk' = disk
              /\ file'.filelist = disk[last'.fpath].entries]_vars

C22_Witness ==
    /\ path = "good.zip"
    /\ last.op \in {"unlink", "write_bytes"}
    /\ last.err = "ok"
    /\ changed
    /\ disk = InitialDisk
    /\ file.filelist # disk["good.zip"].entries
    /\ ~OneVersion(disk["good.zip"].entries)

\* the folder of a name
Folder(name) == [parts |-> <<name>>, slash |-> TRUE]

\* C23: the store that WsFile() creates has the folders dataset/, model/,
\* network/, script/ and system/, in this order and each once, and no other
\* member.
C23_NewFolders ==
    last.op = "create_new" =>
        /\ get_folders(Store) = <<Folder("dataset"), Folder("model"),
                                  Folder("network"), Folder("script"),
                                  Folder("system")>>
        /\ Len(file.filelist) = 5
        /\ \A i \in 1..Len(file.filelist) : is_dir(file.filelist[i])

C23_Witness ==
    /\ last.op = "create_new"
    /\ calls = 0
    /\ path = None
    /\ Len(get_folders(Store)) = Len(DIR_LAYOUT)

\* C24: close returns without an error and leaves the store Closed; called
\* on a store that is Closed already it changes no field of the store.
C24_CloseIdempotent ==
    [][(CallStep /\ last'.op = "close") =>
          /\ last'.err = "ok"
          /\ ~file'.fp /\ buffer'.closed
          /\ Closed => StoreAfter = Store
          /\ disk' = disk]_vars

C24_Witness ==
    /\ last.op = "close"
    /\ "closed" \in last.flags
    /\ last.err = "ok"
    /\ Closed

\* the members that a call of unlink or rmdir hands to _remove_members
Excluded(ws, call) ==
    LET matches == Locate(ws.file.filelist, call.path, TRUE)
        files == get_files(ws, Below(call.path))
    IN IF matches = <<>> \/ call.op = "unlink" \/ files = <<>> THEN matches
       ELSE matches \o Concat([i \in 1..Len(files) |->
                Locate(ws.file.filelist, files[i], TRUE)])

\* the members at the positions that compaction removes: every version of
\* a path but its newest one
Older(filelist) ==
    {i \in 1..Len(filelist) :
        i # NewestIndex(filelist, filelist[i].filename)}

\* the list without the members at the given positions
Kept(filelist, drop) ==
    Concat([i \in 1..Len(filelist) |->
               IF i \in drop THEN <<>> ELSE <<filelist[i]>>])

\* the store saveas compacts: the store with workspace.ini written
Configured ==
    Open(Store, CONFIG_FILE, {"w"}, FALSE, IniDumps(attr), now).ws

ReadPaths == Paths \cup {CONFIG_FILE,
                         [parts |-> <<"dataset", "sub", "y">>,
                          slash |-> FALSE]}

\* C26: an unlink or rmdir that returns leaves the members it did not hand
\* to _remove_members, each with its name, payload and timestamp and in the
\* order they had, and no other member; a compaction that returns leaves
\* the members that are not older versions, in the same way; a read of a
\* path of which no member was removed returns what it returned before.
C26_RebuildFrame ==
    [][CallStep =>
        /\ (last'.op \in {"unlink", "rmdir"} /\ last'.err = "ok") =>
              \A zinfos \in {Excluded(Store, last')} :
              \A drop \in {{i \in 1..Len(file.filelist) :
                               \E k \in 1..Len(zinfos) :
                                  zinfos[k] = file.filelist[i]}} :
                 /\ file'.filelist = Kept(file.filelist, drop)
                 /\ \A q \in ReadPaths :
                       (\A i \in drop :
                           ~SamePath(file.filelist[i].filename, q)) =>
                          \A r \in {read_bytes(Store, q)} :
                          \A r2 \in {read_bytes(StoreAfter, q)} :
                             r2.err = r.err /\ r2.ret = r.ret
        /\ last'.op \in {"save", "saveas"} =>
              \A before \in {Configured} :
              \A after \in {RemoveDuplicates(before)} :
                 after.err = "ok" =>
                    /\ after.ws.file.filelist
                          = Kept(before.file.filelist,
                                 Older(before.file.filelist))
                    /\ \A q \in ReadPaths :
                          (read_bytes(before, q).err = "ok") =>
                             read_bytes(after.ws, q).ret
                                = read_bytes(before, q).ret
                    /\ last'.err = "ok" =>
                          file'.filelist
                             = Stored(after.ws.file.filelist)]_vars

C26_Witness ==
    /\ last.op = "unlink"
    /\ last.err = "ok"
    /\ last.size = 6
    /\ Len(file.filelist) = 4
    /\ read_bytes(Store, [parts |-> <<"dataset", "sub", "y">>,
                          slash |-> FALSE]).ret = <<"a">>

\* C27: compaction of a store in which every path has one version returns
\* and leaves the members, the flag changed and every other field as they
\* were; a compaction that returns leaves a store whose compaction returns
\* and removes nothing more.
C27_CompactionIdempotent ==
    \A once \in {RemoveDuplicates(Store)} :
        /\ OneVersion(file.filelist) =>
              once.err = "ok" /\ once.ws = Store
        /\ once.err = "ok" =>
              \A twice \in {RemoveDuplicates(once.ws)} :
                 /\ twice.err = "ok"
                 /\ twice.ws.file.filelist = once.ws.file.filelist

C27_Witness ==
    /\ last.op = "saveas"
    /\ last.err = "ok"
    /\ last.size > Len(file.filelist)
    /\ OneVersion(file.filelist)
    /\ ~changed
    /\ RemoveDuplicates(Store).ws = Store

\* C28: a saveas to a writable file, called on an open store that has its
\* attributes, returns without an error, also when a file member and a
\* directory marker have the same path.
C28_SaveAsCompletes ==
    [][(/\ CallStep
        /\ last'.op = "saveas"
        /\ Writable(last'.fpath)
        /\ file.fp /\ ~buffer.closed
        /\ attr # {}) => last'.err = "ok"]_vars

\* C29: an unlink, whether it returns or raises, leaves the list of folders
\* as it was.
C29_UnlinkKeepsFolders ==
    [][(CallStep /\ last'.op = "unlink") =>
          get_folders(StoreAfter) = get_folders(Store)]_vars

\* C30: a write to a path whose newest version has the timestamp of the
\* clock appends one more version with that timestamp, and the read that
\* follows returns the payload just written; a save that returns keeps, of
\* the versions of a path that share its highest timestamp, the one written
\* last, as the only version of the path.
C30_TimestampTies ==
    [][CallStep =>
        /\ (/\ last'.op \in {"write_text", "write_bytes"}
            /\ last'.err = "ok"
            /\ HasVersion(file.filelist, last'.path)
            /\ Newest(file.filelist, last'.path).date_time = now) =>
              /\ Len(file'.filelist) = Len(file.filelist) + 1
              /\ SubSeq(file'.filelist, 1, Len(file.filelist))
                    = file.filelist
              /\ Last(file'.filelist).date_time = now
              /\ \A r \in {read_bytes(StoreAfter, last'.path)} :
                    r.err = "ok" /\ r.ret = Last(file'.filelist).data
        /\ (last'.op \in {"save", "saveas"} /\ last'.err = "ok") =>
              \A i, j \in 1..Len(file.filelist) :
                 (/\ i < j
                  /\ file.filelist[i].filename = file.filelist[j].filename
                  /\ file.filelist[i].date_time = file.filelist[j].date_time
                  /\ file.filelist[j].filename # CONFIG_FILE
                  /\ j = NewestIndex(file.filelist,
                                     file.filelist[j].filename)) =>
                    \A k \in 1..Len(file'.filelist) :
                       SamePath(file'.filelist[k].filename,
                                file.filelist[j].filename) =>
                          file'.filelist[k]
                             = [file.filelist[j] EXCEPT
                                   !.date_time = DosTime(@)]]_vars

C30_Witness ==
    /\ last.op = "saveas"
    /\ last.err = "ok"
    /\ last.size = 7
    /\ now = 2
    /\ calls = 3
    /\ \A r \in {read_bytes(Store, [parts |-> <<"dataset", "x">>,
                                    slash |-> FALSE])} :
          r.err = "ok" /\ r.ret = <<"CR", "LF">>

\* C21: no stream of open() is open when no with statement is running: the
\* with statement closes its stream when it is left, whether its body
\* returned or raised and whether the stream reads or writes; the step that
\* closes it leaves the disk as it was and takes no member from the archive.
C21_StreamReleased ==
    /\ [](pc = "idle" => frame.stream.closed)
    /\ [][(frame.op = "open" /\ pc # "idle" /\ pc' = "idle") =>
             /\ frame'.stream.closed
             /\ disk' = disk
             /\ Len(file'.filelist) >= Len(file.filelist)
             /\ SubSeq(file'.filelist, 1, Len(file.filelist))
                   = file.filelist]_vars

C21_Witness ==
    /\ pc = "idle"
    /\ frame.op = "open"
    /\ frame.raised = "BodyError"
    /\ frame.stream.kind = "w"
    /\ frame.stream.closed
    /\ Last(file.filelist).data = <<"a">>
    /\ disk = InitialDisk

\* C25: a second thread that reads the fields of the store after
\* self._file.close() and before self._file = new_file of _remove_members
\* finds the archive handle closed, and after self._buffer = new_buffer
\* finds the open new buffer in _buffer next to the closed handle of the
\* old one in _file; at every other statement the handle it finds is the
\* one of the buffer it finds.
C25_TornSwap ==
    [][(seen' # seen) =>
          /\ seen'.at = pc
          /\ pc \in {"close_buffer", "link_buffer", "link_file"} =>
                ~seen'.fp
          /\ pc = "link_file" => ~seen'.bound /\ ~seen'.closed
          /\ pc # "link_file" => seen'.bound]_vars

C25_Witness ==
    /\ seen.at = "link_file"
    /\ ~seen.bound
    /\ ~seen.fp
    /\ ~seen.closed
    /\ pc = "idle"
    /\ file.fp /\ ~buffer.closed /\ bound

====
